---- MODULE Spec2Model ----
(***************************************************************************)
(* PitchSpark (src/app.py): the weak-phrase matcher get_spacy_suggestions, *)
(* the scorer calculate_score and the two analyzer tabs that call them.    *)
(*                                                                         *)
(* A Python str is a sequence of one-character strings; a value that may   *)
(* be None is the record [none, s].  A call that may raise returns the     *)
(* record [raised, value]: raised is "" when the call returned.            *)
(***************************************************************************)
EXTENDS Integers, Sequences, FiniteSets, TLC

(* ------------------------------ bounds -------------------------------- *)

\* phrases joined into one generated input text
MaxPhrases == 2

\* length of the suggestion lists handed to the scorer directly
MaxSuggestions == 5

(* --------------------------- Python values ---------------------------- *)

None == [none |-> TRUE, s |-> <<>>]

Str(s) == [none |-> FALSE, s |-> s]

Returned(v) == [raised |-> "", value |-> v]

Raised(e) == [raised |-> e, value |-> <<>>]

\* A character is a one-character string; the grave accent and a character
\* outside printable ASCII are written as their code point, "U+0060", "U+00C9".  The tables cover printable
\* ASCII, Latin-1 Supplement, Latin Extended-A, Greek and Coptic, U+0307 and
\* the signs U+2126, U+212A, U+212B; str.lower() leaves every other
\* character of these blocks as it is.

\* the characters str.lower() changes, each with what it becomes ("U+0130"
\* becomes two characters)
LowerOf ==
  "A" :> <<"a">> @@ "B" :> <<"b">> @@ "C" :> <<"c">> @@ "D" :> <<"d">> @@
  "E" :> <<"e">> @@ "F" :> <<"f">> @@ "G" :> <<"g">> @@ "H" :> <<"h">> @@
  "I" :> <<"i">> @@ "J" :> <<"j">> @@ "K" :> <<"k">> @@ "L" :> <<"l">> @@
  "M" :> <<"m">> @@ "N" :> <<"n">> @@ "O" :> <<"o">> @@ "P" :> <<"p">> @@
  "Q" :> <<"q">> @@ "R" :> <<"r">> @@ "S" :> <<"s">> @@ "T" :> <<"t">> @@
  "U" :> <<"u">> @@ "V" :> <<"v">> @@ "W" :> <<"w">> @@ "X" :> <<"x">> @@
  "Y" :> <<"y">> @@ "Z" :> <<"z">> @@ "U+00C0" :> <<"U+00E0">> @@ "U+00C1" :> <<"U+00E1">> @@
  "U+00C2" :> <<"U+00E2">> @@ "U+00C3" :> <<"U+00E3">> @@ "U+00C4" :> <<"U+00E4">> @@ "U+00C5" :> <<"U+00E5">> @@
  "U+00C6" :> <<"U+00E6">> @@ "U+00C7" :> <<"U+00E7">> @@ "U+00C8" :> <<"U+00E8">> @@ "U+00C9" :> <<"U+00E9">> @@
  "U+00CA" :> <<"U+00EA">> @@ "U+00CB" :> <<"U+00EB">> @@ "U+00CC" :> <<"U+00EC">> @@ "U+00CD" :> <<"U+00ED">> @@
  "U+00CE" :> <<"U+00EE">> @@ "U+00CF" :> <<"U+00EF">> @@ "U+00D0" :> <<"U+00F0">> @@ "U+00D1" :> <<"U+00F1">> @@
  "U+00D2" :> <<"U+00F2">> @@ "U+00D3" :> <<"U+00F3">> @@ "U+00D4" :> <<"U+00F4">> @@ "U+00D5" :> <<"U+00F5">> @@
  "U+00D6" :> <<"U+00F6">> @@ "U+00D8" :> <<"U+00F8">> @@ "U+00D9" :> <<"U+00F9">> @@ "U+00DA" :> <<"U+00FA">> @@
  "U+00DB" :> <<"U+00FB">> @@ "U+00DC" :> <<"U+00FC">> @@ "U+00DD" :> <<"U+00FD">> @@ "U+00DE" :> <<"U+00FE">> @@
  "U+0100" :> <<"U+0101">> @@ "U+0102" :> <<"U+0103">> @@ "U+0104" :> <<"U+0105">> @@ "U+0106" :> <<"U+0107">> @@
  "U+0108" :> <<"U+0109">> @@ "U+010A" :> <<"U+010B">> @@ "U+010C" :> <<"U+010D">> @@ "U+010E" :> <<"U+010F">> @@
  "U+0110" :> <<"U+0111">> @@ "U+0112" :> <<"U+0113">> @@ "U+0114" :> <<"U+0115">> @@ "U+0116" :> <<"U+0117">> @@
  "U+0118" :> <<"U+0119">> @@ "U+011A" :> <<"U+011B">> @@ "U+011C" :> <<"U+011D">> @@ "U+011E" :> <<"U+011F">> @@
  "U+0120" :> <<"U+0121">> @@ "U+0122" :> <<"U+0123">> @@ "U+0124" :> <<"U+0125">> @@ "U+0126" :> <<"U+0127">> @@
  "U+0128" :> <<"U+0129">> @@ "U+012A" :> <<"U+012B">> @@ "U+012C" :> <<"U+012D">> @@ "U+012E" :> <<"U+012F">> @@
  "U+0130" :> <<"i", "U+0307">> @@ "U+0132" :> <<"U+0133">> @@ "U+0134" :> <<"U+0135">> @@ "U+0136" :> <<"U+0137">> @@
  "U+0139" :> <<"U+013A">> @@ "U+013B" :> <<"U+013C">> @@ "U+013D" :> <<"U+013E">> @@ "U+013F" :> <<"U+0140">> @@
  "U+0141" :> <<"U+0142">> @@ "U+0143" :> <<"U+0144">> @@ "U+0145" :> <<"U+0146">> @@ "U+0147" :> <<"U+0148">> @@
  "U+014A" :> <<"U+014B">> @@ "U+014C" :> <<"U+014D">> @@ "U+014E" :> <<"U+014F">> @@ "U+0150" :> <<"U+0151">> @@
  "U+0152" :> <<"U+0153">> @@ "U+0154" :> <<"U+0155">> @@ "U+0156" :> <<"U+0157">> @@ "U+0158" :> <<"U+0159">> @@
  "U+015A" :> <<"U+015B">> @@ "U+015C" :> <<"U+015D">> @@ "U+015E" :> <<"U+015F">> @@ "U+0160" :> <<"U+0161">> @@
  "U+0162" :> <<"U+0163">> @@ "U+0164" :> <<"U+0165">> @@ "U+0166" :> <<"U+0167">> @@ "U+0168" :> <<"U+0169">> @@
  "U+016A" :> <<"U+016B">> @@ "U+016C" :> <<"U+016D">> @@ "U+016E" :> <<"U+016F">> @@ "U+0170" :> <<"U+0171">> @@
  "U+0172" :> <<"U+0173">> @@ "U+0174" :> <<"U+0175">> @@ "U+0176" :> <<"U+0177">> @@ "U+0178" :> <<"U+00FF">> @@
  "U+0179" :> <<"U+017A">> @@ "U+017B" :> <<"U+017C">> @@ "U+017D" :> <<"U+017E">> @@ "U+0370" :> <<"U+0371">> @@
  "U+0372" :> <<"U+0373">> @@ "U+0376" :> <<"U+0377">> @@ "U+037F" :> <<"U+03F3">> @@ "U+0386" :> <<"U+03AC">> @@
  "U+0388" :> <<"U+03AD">> @@ "U+0389" :> <<"U+03AE">> @@ "U+038A" :> <<"U+03AF">> @@ "U+038C" :> <<"U+03CC">> @@
  "U+038E" :> <<"U+03CD">> @@ "U+038F" :> <<"U+03CE">> @@ "U+0391" :> <<"U+03B1">> @@ "U+0392" :> <<"U+03B2">> @@
  "U+0393" :> <<"U+03B3">> @@ "U+0394" :> <<"U+03B4">> @@ "U+0395" :> <<"U+03B5">> @@ "U+0396" :> <<"U+03B6">> @@
  "U+0397" :> <<"U+03B7">> @@ "U+0398" :> <<"U+03B8">> @@ "U+0399" :> <<"U+03B9">> @@ "U+039A" :> <<"U+03BA">> @@
  "U+039B" :> <<"U+03BB">> @@ "U+039C" :> <<"U+03BC">> @@ "U+039D" :> <<"U+03BD">> @@ "U+039E" :> <<"U+03BE">> @@
  "U+039F" :> <<"U+03BF">> @@ "U+03A0" :> <<"U+03C0">> @@ "U+03A1" :> <<"U+03C1">> @@ "U+03A3" :> <<"U+03C3">> @@
  "U+03A4" :> <<"U+03C4">> @@ "U+03A5" :> <<"U+03C5">> @@ "U+03A6" :> <<"U+03C6">> @@ "U+03A7" :> <<"U+03C7">> @@
  "U+03A8" :> <<"U+03C8">> @@ "U+03A9" :> <<"U+03C9">> @@ "U+03AA" :> <<"U+03CA">> @@ "U+03AB" :> <<"U+03CB">> @@
  "U+03CF" :> <<"U+03D7">> @@ "U+03D8" :> <<"U+03D9">> @@ "U+03DA" :> <<"U+03DB">> @@ "U+03DC" :> <<"U+03DD">> @@
  "U+03DE" :> <<"U+03DF">> @@ "U+03E0" :> <<"U+03E1">> @@ "U+03E2" :> <<"U+03E3">> @@ "U+03E4" :> <<"U+03E5">> @@
  "U+03E6" :> <<"U+03E7">> @@ "U+03E8" :> <<"U+03E9">> @@ "U+03EA" :> <<"U+03EB">> @@ "U+03EC" :> <<"U+03ED">> @@
  "U+03EE" :> <<"U+03EF">> @@ "U+03F4" :> <<"U+03B8">> @@ "U+03F7" :> <<"U+03F8">> @@ "U+03F9" :> <<"U+03F2">> @@
  "U+03FA" :> <<"U+03FB">> @@ "U+03FD" :> <<"U+037B">> @@ "U+03FE" :> <<"U+037C">> @@ "U+03FF" :> <<"U+037D">> @@
  "U+2126" :> <<"U+03C9">> @@ "U+212A" :> <<"k">> @@ "U+212B" :> <<"U+00E5">>

UpperLetters == DOMAIN LowerOf

\* the cased characters
CasedChars ==
  {
    "A", "B", "C", "D", "E", "F", "G", "H", "I", "J",
    "K", "L", "M", "N", "O", "P", "Q", "R", "S", "T",
    "U", "V", "W", "X", "Y", "Z", "a", "b", "c", "d",
    "e", "f", "g", "h", "i", "j", "k", "l", "m", "n",
    "o", "p", "q", "r", "s", "t", "u", "v", "w", "x",
    "y", "z", "U+00AA", "U+00B5", "U+00BA", "U+00C0", "U+00C1", "U+00C2", "U+00C3", "U+00C4",
    "U+00C5", "U+00C6", "U+00C7", "U+00C8", "U+00C9", "U+00CA", "U+00CB", "U+00CC", "U+00CD", "U+00CE",
    "U+00CF", "U+00D0", "U+00D1", "U+00D2", "U+00D3", "U+00D4", "U+00D5", "U+00D6", "U+00D8", "U+00D9",
    "U+00DA", "U+00DB", "U+00DC", "U+00DD", "U+00DE", "U+00DF", "U+00E0", "U+00E1", "U+00E2", "U+00E3",
    "U+00E4", "U+00E5", "U+00E6", "U+00E7", "U+00E8", "U+00E9", "U+00EA", "U+00EB", "U+00EC", "U+00ED",
    "U+00EE", "U+00EF", "U+00F0", "U+00F1", "U+00F2", "U+00F3", "U+00F4", "U+00F5", "U+00F6", "U+00F8",
    "U+00F9", "U+00FA", "U+00FB", "U+00FC", "U+00FD", "U+00FE", "U+00FF", "U+0100", "U+0101", "U+0102",
    "U+0103", "U+0104", "U+0105", "U+0106", "U+0107", "U+0108", "U+0109", "U+010A", "U+010B", "U+010C",
    "U+010D", "U+010E", "U+010F", "U+0110", "U+0111", "U+0112", "U+0113", "U+0114", "U+0115", "U+0116",
    "U+0117", "U+0118", "U+0119", "U+011A", "U+011B", "U+011C", "U+011D", "U+011E", "U+011F", "U+0120",
    "U+0121", "U+0122", "U+0123", "U+0124", "U+0125", "U+0126", "U+0127", "U+0128", "U+0129", "U+012A",
    "U+012B", "U+012C", "U+012D", "U+012E", "U+012F", "U+0130", "U+0131", "U+0132", "U+0133", "U+0134",
    "U+0135", "U+0136", "U+0137", "U+0138", "U+0139", "U+013A", "U+013B", "U+013C", "U+013D", "U+013E",
    "U+013F", "U+0140", "U+0141", "U+0142", "U+0143", "U+0144", "U+0145", "U+0146", "U+0147", "U+0148",
    "U+0149", "U+014A", "U+014B", "U+014C", "U+014D", "U+014E", "U+014F", "U+0150", "U+0151", "U+0152",
    "U+0153", "U+0154", "U+0155", "U+0156", "U+0157", "U+0158", "U+0159", "U+015A", "U+015B", "U+015C",
    "U+015D", "U+015E", "U+015F", "U+0160", "U+0161", "U+0162", "U+0163", "U+0164", "U+0165", "U+0166",
    "U+0167", "U+0168", "U+0169", "U+016A", "U+016B", "U+016C", "U+016D", "U+016E", "U+016F", "U+0170",
    "U+0171", "U+0172", "U+0173", "U+0174", "U+0175", "U+0176", "U+0177", "U+0178", "U+0179", "U+017A",
    "U+017B", "U+017C", "U+017D", "U+017E", "U+017F", "U+0370", "U+0371", "U+0372", "U+0373", "U+0376",
    "U+0377", "U+037A", "U+037B", "U+037C", "U+037D", "U+037F", "U+0386", "U+0388", "U+0389", "U+038A",
    "U+038C", "U+038E", "U+038F", "U+0390", "U+0391", "U+0392", "U+0393", "U+0394", "U+0395", "U+0396",
    "U+0397", "U+0398", "U+0399", "U+039A", "U+039B", "U+039C", "U+039D", "U+039E", "U+039F", "U+03A0",
    "U+03A1", "U+03A3", "U+03A4", "U+03A5", "U+03A6", "U+03A7", "U+03A8", "U+03A9", "U+03AA", "U+03AB",
    "U+03AC", "U+03AD", "U+03AE", "U+03AF", "U+03B0", "U+03B1", "U+03B2", "U+03B3", "U+03B4", "U+03B5",
    "U+03B6", "U+03B7", "U+03B8", "U+03B9", "U+03BA", "U+03BB", "U+03BC", "U+03BD", "U+03BE", "U+03BF",
    "U+03C0", "U+03C1", "U+03C2", "U+03C3", "U+03C4", "U+03C5", "U+03C6", "U+03C7", "U+03C8", "U+03C9",
    "U+03CA", "U+03CB", "U+03CC", "U+03CD", "U+03CE", "U+03CF", "U+03D0", "U+03D1", "U+03D2", "U+03D3",
    "U+03D4", "U+03D5", "U+03D6", "U+03D7", "U+03D8", "U+03D9", "U+03DA", "U+03DB", "U+03DC", "U+03DD",
    "U+03DE", "U+03DF", "U+03E0", "U+03E1", "U+03E2", "U+03E3", "U+03E4", "U+03E5", "U+03E6", "U+03E7",
    "U+03E8", "U+03E9", "U+03EA", "U+03EB", "U+03EC", "U+03ED", "U+03EE", "U+03EF", "U+03F0", "U+03F1",
    "U+03F2", "U+03F3", "U+03F4", "U+03F5", "U+03F7", "U+03F8", "U+03F9", "U+03FA", "U+03FB", "U+03FC",
    "U+03FD", "U+03FE", "U+03FF", "U+2126", "U+212A", "U+212B"
  }

\* the case-ignorable characters
CaseIgnorableChars ==
  {
    "'", ".", ":", "^", "U+0060", "U+00A8", "U+00AD", "U+00AF", "U+00B4", "U+00B7",
    "U+00B8", "U+0307", "U+0374", "U+0375", "U+037A", "U+0384", "U+0385", "U+0387"
  }

\* str.lower() on one character
LowerChar(c) == IF c \in UpperLetters THEN LowerOf[c] ELSE <<c>>

\* min(S)
Least(S) == CHOOSE q \in S : \A r \in S : q <= r

\* max(S)
Greatest(S) == CHOOSE q \in S : \A r \in S : q >= r

\* the capital sigma at s[i] ends a word: a cased character comes before it
\* and none after it, case-ignorable characters skipped
FinalSigma(s, i) ==
  LET before == {j \in 1..(i - 1) : s[j] \notin CaseIgnorableChars}
      after == {j \in (i + 1)..Len(s) : s[j] \notin CaseIgnorableChars}
  IN  /\ before # {}
      /\ s[Greatest(before)] \in CasedChars
      /\ ~(after # {} /\ s[Least(after)] \in CasedChars)

\* what str.lower() makes of the character at s[i]
LowerAt(s, i) ==
  IF s[i] = "U+03A3" /\ FinalSigma(s, i) THEN <<"U+03C2">> ELSE LowerChar(s[i])

RECURSIVE LowerRange(_, _, _)
\* s[a..b].lower() within s
LowerRange(s, a, b) ==
  IF a > b THEN <<>>
  ELSE IF a = b THEN LowerAt(s, a)
  ELSE LowerRange(s, a, (a + b) \div 2) \o LowerRange(s, (a + b) \div 2 + 1, b)

\* str.lower()
Lower(s) ==
  IF \A i \in 1..Len(s) : s[i] # "U+0130"
  THEN <<>> \o [i \in 1..Len(s) |-> LowerAt(s, i)[1]]
  ELSE LowerRange(s, 1, Len(s))

\* k in s (substring test)
Contains(s, k) ==
  \E i \in 1..(Len(s) - Len(k) + 1) : \A j \in 1..Len(k) : s[i + j - 1] = k[j]

\* s.startswith(k)
StartsWith(s, k) == Len(s) >= Len(k) /\ SubSeq(s, 1, Len(k)) = k

(* ------------------------------- words -------------------------------- *)

w_I == <<"I">>
w_i == <<"i">>
w_think == <<"t","h","i","n","k">>
\* "thin" and the Kelvin sign, which str.lower() turns into "k"
w_thinK == <<"t","h","i","n","U+212A">>
\* the dotted capital I, which str.lower() turns into two characters
w_I_dotted == <<"U+0130">>
w_believe == <<"b","e","l","i","e","v","e">>
w_helped == <<"h","e","l","p","e","d">>
w_with == <<"w","i","t","h">>
w_responsible == <<"r","e","s","p","o","n","s","i","b","l","e">>
w_for == <<"f","o","r">>
w_data == <<"d","a","t","a">>
w_software == <<"s","o","f","t","w","a","r","e">>
w_Software == <<"S","o","f","t","w","a","r","e">>
w_python == <<"p","y","t","h","o","n">>
w_the == <<"t","h","e">>
w_project == <<"p","r","o","j","e","c","t">>
w_and == <<"a","n","d">>
w_was == <<"w","a","s">>
w_sales_dot == <<"s","a","l","e","s",".">>

RECURSIVE Join(_)
\* " ".join(ws)
Join(ws) ==
  IF Len(ws) = 0 THEN <<>>
  ELSE IF Len(ws) = 1 THEN ws[1]
  ELSE ws[1] \o <<" ">> \o Join(Tail(ws))

(* ----------------------- nlp(text): the tokenizer ---------------------- *)

\* A token is the slice first..last of the text.  The tokenizer splits the
\* text at spaces, splits a final "." off a word, and turns the spaces of a
\* run that are not the single space trailing a word into a token of their own.

\* the first positions of the maximal runs of spaces and of non-spaces
RunStarts(s) ==
  {p \in 1..Len(s) : p = 1 \/ (s[p] = " ") # (s[p - 1] = " ")}

\* the runs that start at starts: each ends before the next one starts
RunsFrom(s, starts) ==
  { [first |-> p,
     last |-> Least({q - 1 : q \in {q \in starts : q > p}} \cup {Len(s)})] :
      p \in starts }

\* the tokens of the word p..q: a final "." is a token of its own
SplitWord(s, p, q) ==
  IF s[q] = "." /\ q > p
  THEN {[first |-> p, last |-> q - 1], [first |-> q, last |-> q]}
  ELSE {[first |-> p, last |-> q]}

\* the tokens of one run; of a run of spaces, the first is the space that
\* trails the word before it, and the others are one token
RunTokens(s, run) ==
  IF s[run.first] # " " THEN SplitWord(s, run.first, run.last)
  ELSE IF run.first = 1 THEN {run}
  ELSE IF run.last > run.first THEN {[first |-> run.first + 1, last |-> run.last]}
  ELSE {}

\* the tokens in text order
InTextOrder(toks) ==
  [k \in 1..Cardinality(toks) |->
     CHOOSE t \in toks : Cardinality({u \in toks : u.first < t.first}) = k - 1]

Tokenize(s) ==
  InTextOrder(UNION { RunTokens(s, run) : run \in RunsFrom(s, RunStarts(s)) })

\* token.text
TokenText(s, t) == SubSeq(s, t.first, t.last)

\* nlp(text): the Doc, or the error of a text the pipeline cannot process
\* (None, or a text the tokenizer fails on, such as one longer than
\* nlp.max_length)
nlp(text, tokenizer_fails) ==
  IF text.none \/ tokenizer_fails THEN Raised("ValueError")
  ELSE Returned(Tokenize(text.s))

(* ------------------- Matcher and get_spacy_suggestions ----------------- *)

patterns ==
  << <<[attr |-> "LOWER", val |-> w_i], [attr |-> "LOWER", val |-> w_think]>>,
     <<[attr |-> "LOWER", val |-> w_i], [attr |-> "LOWER", val |-> w_believe]>>,
     <<[attr |-> "LOWER", val |-> w_helped], [attr |-> "LEMMA", val |-> w_with]>>,
     <<[attr |-> "LOWER", val |-> w_responsible], [attr |-> "LOWER", val |-> w_for]>> >>

\* token.lemma_ of a function word: its lowercase form
Lemma(w) == Lower(w)

\* a predicate that compares the token text itself, case and all
TokenMatchesExactCase(w, pred) == w = pred.val

\* one token predicate of a pattern
TokenMatches(w, pred) ==
  IF pred.attr = "LOWER" THEN Lower(w) = pred.val ELSE Lemma(w) = pred.val

\* pattern pat matches the tokens start+1 .. start+Len(pat) of the doc
\* (start counts from 0, as in Python)
PatternMatchesAt(s, doc, pat, start) ==
  /\ start + Len(pat) <= Len(doc)
  /\ \A j \in 1..Len(pat) : TokenMatches(TokenText(s, doc[start + j]), pat[j])

\* the matches in the order in which they end in the text
InMatchOrder(found) ==
  LET Before(a, b) == a[2] < b[2] \/ (a[2] = b[2] /\ a[1] < b[1])
  IN  [k \in 1..Cardinality(found) |->
         CHOOSE m \in found : Cardinality({u \in found : Before(u, m)}) = k - 1]

\* matcher(doc): the (start, end) of every match of a pattern, each once,
\* in the order in which the matches end in the text
Matches(s, doc) ==
  InMatchOrder({ <<start, start + Len(patterns[p])>> :
                   <<start, p>> \in
                     { m \in (0..Len(doc)) \X (1..Len(patterns)) :
                         PatternMatchesAt(s, doc, patterns[m[2]], m[1]) } })

\* doc[start:end].text
SpanText(s, doc, m) == SubSeq(s, doc[m[1] + 1].first, doc[m[2]].last)

Confident == "Try a more confident phrase."
ActionVerb == "Try a stronger action verb like 'Assisted', 'Supported', or 'Contributed to'."
StrongVerbs == "Try using strong action verbs like 'Managed', 'Owned', or 'Led'."

\* the advice for a span whose text.lower() is low; "" when no branch of the
\* if / elif chain applies
AdviceFor(low) ==
  IF low = Join(<<w_i, w_think>>) \/ low = Join(<<w_i, w_believe>>) THEN Confident
  ELSE IF StartsWith(low, w_helped) THEN ActionVerb
  ELSE IF low = Join(<<w_responsible, w_for>>) THEN StrongVerbs
  ELSE ""

\* the f-string "Found: '{span.text}'. {advice}", kept as its two parts;
\* advice "" is the empty suggestion
Suggestion(span, advice) ==
  IF advice = "" THEN [found |-> <<>>, advice |-> ""]
  ELSE [found |-> span, advice |-> advice]

\* the suggestion of one match
SuggestionFor(span) == Suggestion(span, AdviceFor(Lower(span)))

\* a membership test that finds nothing
InListNever(x, l) == FALSE

\* suggestion in suggestions
InList(x, l) == \E i \in 1..Len(l) : l[i] = x

\* if suggestion and suggestion not in suggestions: suggestions.append(suggestion)
AppendNew(suggestions, suggestion) ==
  IF suggestion.advice # "" /\ ~InList(suggestion, suggestions)
  THEN Append(suggestions, suggestion)
  ELSE suggestions

RECURSIVE CollectSuggestions(_, _, _, _, _)
\* the loop over matches, from match k on, with the list built so far
CollectSuggestions(s, doc, matches, k, suggestions) ==
  IF k > Len(matches) THEN suggestions
  ELSE CollectSuggestions(s, doc, matches, k + 1,
         AppendNew(suggestions, SuggestionFor(SpanText(s, doc, matches[k]))))

get_spacy_suggestions(text, tokenizer_fails) ==
  LET d == nlp(text, tokenizer_fails)
  IN  IF d.raised # "" THEN d
      ELSE Returned(CollectSuggestions(text.s, d.value, Matches(text.s, d.value), 1, <<>>))

(* --------------------------- calculate_score --------------------------- *)

BaseScore == 50
SuggestionPenalty == 15
ShortLength == 150
ShortPenalty == 20
LongLength == 500
LongBonus == 20
KeywordBonus == 10
MinScore == 0
MaxScore == 100

Max(a, b) == IF a >= b THEN a ELSE b

Min(a, b) == IF a <= b THEN a ELSE b

\* the keywords of the one `or` condition
keywords == {w_data, w_software, w_python}

\* a keyword bonus of 10 for each keyword in text.lower()
KeywordAdjustPerKeyword(s) ==
  KeywordBonus * Cardinality({k \in keywords : Contains(Lower(s), k)})

\* the keyword bonus: 10 once, when any keyword is in text.lower()
KeywordAdjust(s) ==
  LET lowered == Lower(s)
  IN  IF \E k \in keywords : Contains(lowered, k) THEN KeywordBonus ELSE 0

\* a length adjustment whose short band includes the threshold
LengthAdjustInclusive(s) ==
  IF Len(s) <= ShortLength THEN -ShortPenalty
  ELSE IF Len(s) > LongLength THEN LongBonus
  ELSE 0

\* the length adjustment
LengthAdjust(s) ==
  IF Len(s) < ShortLength THEN -ShortPenalty
  ELSE IF Len(s) > LongLength THEN LongBonus
  ELSE 0

\* the score before the clamp
RawScore(spacy_suggestions, s) ==
  BaseScore - Len(spacy_suggestions) * SuggestionPenalty
  + LengthAdjust(s) + KeywordAdjust(s)

\* a clamp without the lower bound
ClampNoFloor(raw_score) == Min(MaxScore, raw_score)

\* max(0, min(100, score))
Clamp(raw_score) == Max(MinScore, Min(MaxScore, raw_score))

\* len(None) raises TypeError
calculate_score(spacy_suggestions, text_arg) ==
  IF text_arg.none THEN Raised("TypeError")
  ELSE Returned(Clamp(RawScore(spacy_suggestions, text_arg.s)))

(* ------------------------------- inputs -------------------------------- *)

phrases ==
  << Join(<<w_I, w_think>>), Join(<<w_i, w_think>>), Join(<<w_I, w_thinK>>),
     Join(<<w_I, w_believe>>), Join(<<w_helped, w_with>>),
     Join(<<w_responsible, w_for>>), w_data, w_Software, w_python >>

\* "I think I helped with the project and I was responsible for sales."
SalesText ==
  Join(<<w_I, w_think, w_I, w_helped, w_with, w_the, w_project, w_and,
         w_I, w_was, w_responsible, w_for, w_sales_dot>>)

\* "I think I think I believe"
ThinkThinkBelieve == Join(<<w_I, w_think, w_I, w_think, w_I, w_believe>>)

\* a text with a phrase of each of the four rules, the last rule first
AllFourText ==
  Join(<<w_responsible, w_for, w_data, w_and, w_I, w_think, w_and, w_I,
         w_believe, w_I, w_helped, w_with, w_sales_dot>>)

\* the three keywords
ThreeKeywords == Join(<<w_data, w_software, w_python>>)

\* "I  think": two spaces, so that "I" and "think" are not adjacent tokens
TwoSpaces == w_I \o <<" ", " ">> \o w_think

\* a dotted capital I before "think": its lowercase form is not "i"
DottedThink == Join(<<w_I_dotted, w_think>>)

\* the phrase sequences of at most MaxPhrases phrases, joined by spaces
PhraseSeqs == UNION { [1..n -> 1..Len(phrases)] : n \in 0..MaxPhrases }

BaseTexts ==
  { Join([i \in 1..Len(ps) |-> phrases[ps[i]]]) : ps \in PhraseSeqs }
  \cup {SalesText, ThinkThinkBelieve, AllFourText, ThreeKeywords, TwoSpaces,
        DottedThink}

\* "x" * n
Filler(n) == [i \in 1..n |-> "x"]

\* s followed by a word of filler that brings its length to n
PadTo(s, n) ==
  IF s = <<>> THEN Filler(n)
  ELSE IF n > Len(s) + 1 THEN s \o <<" ">> \o Filler(n - Len(s) - 1)
  ELSE s

\* text lengths around the two thresholds of the scorer (0: no filler)
PadLengths == {0, ShortLength - 1, ShortLength, LongLength, LongLength + 1, 600}

CoreTexts == { Str(PadTo(s, n)) : s \in BaseTexts, n \in PadLengths } \cup {None}

\* suggestion lists of any length for the scorer, whatever the text
AnySuggestion(i) == [found |-> Filler(i), advice |-> Confident]

SuggestionLists == { [i \in 1..n |-> AnySuggestion(i)] : n \in 0..MaxSuggestions }

(* ------------------------------- state --------------------------------- *)

VARIABLES
  text,              \* core call: the input text
  pc,                \* core call: "start", "matched", "scored", "scored_list"
  tokenizer_failed,  \* core call: whether the tokenizer failed on the text
  suggestions,       \* core call: what get_spacy_suggestions returned or raised
  score,             \* core call: what calculate_score returned or raised
  profile_text,      \* page: the content of the text area of tab 1
  resume_file,       \* page: the file of the uploader of tab 2
  metric,            \* page: the Score metric of the sidebar
  page,              \* page: what the script run rendered in the tabs so far
  uncaught,          \* page: the exception that ended the script run, or ""
  script,            \* page: where the script run is, what it does next, its local variables
  pending,           \* page: the rerun requested while the run waits
  widgets_shown,     \* page: the widgets (by key) that are on the page
  github_pat,        \* page: GITHUB_PAT is set in the environment of the process
  nlp_loaded         \* page: load_spacy_model has returned the pipeline (cached)

core_vars == <<text, pc, tokenizer_failed, suggestions, score>>

widget_vars == <<profile_text, resume_file>>

run_vars == <<metric, page, uncaught, script, widgets_shown, github_pat, nlp_loaded>>

page_vars == <<widget_vars, run_vars, pending>>

vars == <<core_vars, page_vars>>

NotCalled == Raised("not called")

\* score_placeholder.metric("Score", "0 / 100", "Run analysis")
InitialMetric == [value |-> 0, delta |-> "Run analysis", pts |-> 0]

\* st.file_uploader with no file
NoFile == [uploaded |-> FALSE, text |-> None]

CoreIdle ==
  /\ pc = "start"
  /\ tokenizer_failed = FALSE
  /\ suggestions = NotCalled
  /\ score = NotCalled

\* the placeholder of the sidebar before line 131 fills it
NoMetric == [value |-> 0, delta |-> "", pts |-> 0]

\* no rerun is requested
NoPending == [requested |-> FALSE, buttons |-> {}]

\* no script run: its position at, the st.* calls and the end it has still
\* to make (todo), the call of get_ai_analysis it then waits in (wait), the
\* buttons that were clicked, its variable spacy_suggestions, and the
\* widgets it has rendered
NoScript(at) ==
  [at |-> at, todo |-> <<>>, wait |-> "", buttons |-> {},
   spacy_suggestions |-> <<>>, rendered |-> {}]

\* the session before the first run of the script
PageIdle ==
  /\ profile_text = Str(<<>>)
  /\ resume_file = NoFile
  /\ metric = NoMetric
  /\ page = <<>>
  /\ uncaught = ""
  /\ script = NoScript("start")
  /\ pending = NoPending
  /\ widgets_shown = {}
  /\ github_pat = FALSE
  /\ nlp_loaded = FALSE

(* ----------------- the core functions, called directly ----------------- *)

InitCore ==
  /\ text \in CoreTexts
  /\ CoreIdle
  /\ PageIdle

\* suggestions = get_spacy_suggestions(text)
CallMatcher ==
  /\ pc = "start"
  /\ \E fails \in BOOLEAN :
       /\ tokenizer_failed' = fails
       /\ suggestions' = get_spacy_suggestions(text, fails)
  /\ pc' = "matched"
  /\ UNCHANGED <<text, score, page_vars>>

\* score = calculate_score(suggestions, text), after the matcher returned
CallScorer ==
  /\ pc = "matched"
  /\ suggestions.raised = ""
  /\ score' = calculate_score(suggestions.value, text)
  /\ pc' = "scored"
  /\ UNCHANGED <<text, tokenizer_failed, suggestions, page_vars>>

\* score = calculate_score(l, text) for a suggestion list l of any length
CallScorerWithList ==
  /\ pc = "start"
  /\ \E l \in SuggestionLists :
       /\ suggestions' = Returned(l)
       /\ score' = calculate_score(l, text)
  /\ pc' = "scored_list"
  /\ UNCHANGED <<text, tokenizer_failed, page_vars>>

NextCore == CallMatcher \/ CallScorer \/ CallScorerWithList

SpecCore == InitCore /\ [][NextCore]_vars

(* --------------------------- the page script --------------------------- *)

\* phrases typed one after the other into the text area
MaxTypedPhrases == 1

typed_phrases ==
  << Join(<<w_I, w_thinK>>), w_Software >>

TypedSeqs == UNION { [1..n -> 1..Len(typed_phrases)] : n \in 0..MaxTypedPhrases }

TypedTexts ==
  { Str(Join([i \in 1..Len(ps) |-> typed_phrases[ps[i]]])) : ps \in TypedSeqs }

\* texts pasted into the text area as a whole
PastedTexts ==
  { Str(SalesText), Str(PadTo(ThreeKeywords, 600)) }

\* s with the phrase ph typed after it
Typed(s, ph) == IF s = <<>> THEN ph ELSE s \o <<" ">> \o ph

\* what one edit can make of the text t of the text area: t with one more
\* phrase, the empty text, or a pasted text
Edits(t) ==
  { u \in TypedTexts :
      u.s = <<>> \/ \E i \in 1..Len(typed_phrases) : u.s = Typed(t.s, typed_phrases[i]) }
  \cup PastedTexts

\* what extract_text_from_pdf may return for an uploaded file (None: the
\* reader failed)
ResumeTexts ==
  { None, Str(<<>>), Str(PadTo(Join(<<w_I, w_believe, w_python>>), 600)) }

\* if text:
Truthy(t) == ~t.none /\ t.s # <<>>

Element(kind, body) == [kind |-> kind, body |-> body]

\* score_placeholder.metric("Score", f"{score} / 100",
\*   f"{100-score} pts to improve" if score < 100 else "Perfect!")
ScoreMetric(sc) ==
  IF sc < MaxScore
  THEN [value |-> sc, delta |-> "pts to improve", pts |-> MaxScore - sc]
  ELSE [value |-> sc, delta |-> "Perfect!", pts |-> 0]

\* what the request of get_ai_analysis comes to: an answer whose content is
\* a non-empty string, the empty string or null, a response with an error
\* status, or any other failure (no connection, a timeout, a body that is
\* not the expected JSON)
Responses == {"message", "empty", "null", "HTTPError", "Exception"}

\* the content of an answer of the model
ai_message == <<"O", "K">>

\* one thing a run has still to do: an st.* call, or its end
Effect(kind, val) == [kind |-> kind, val |-> val]

\* the part r of a run, followed by st.error / st.subheader / st.write /
\* st.warning
Rendered(r, kind, body) ==
  [r EXCEPT !.todo = Append(@, Effect("element", Element(kind, body)))]

\* ... followed by score_placeholder.metric
WithMetric(r, m) == [r EXCEPT !.todo = Append(@, Effect("metric", m))]

\* ... followed by st.text_area / st.button / st.file_uploader
WithWidget(r, key) == [r EXCEPT !.todo = Append(@, Effect("widget", key))]

\* get_ai_analysis: the value it returns and the run with the st.error of a
\* failed request
get_ai_analysis(r, response) ==
  IF response = "HTTPError"
    THEN [run |-> Rendered(r, "error", "An API error occurred"), value |-> None]
  ELSE IF response = "Exception"
    THEN [run |-> Rendered(r, "error", "An unexpected error occurred"), value |-> None]
  ELSE IF response = "null" THEN [run |-> r, value |-> None]
  ELSE IF response = "empty" THEN [run |-> r, value |-> Str(<<>>)]
  ELSE [run |-> r, value |-> Str(ai_message)]

\* under `if ai_analysis:` the answer below its subheader
ShowIfTruthy(r, title, value) ==
  IF Truthy(value) THEN Rendered(Rendered(r, "subheader", title), "write", value.s)
  ELSE r

\* the return of get_ai_analysis and what follows it
ShowReturned(got, title) == ShowIfTruthy(got.run, title, got.value)

\* ai_analysis = get_ai_analysis(...); if ai_analysis: ...
ShowAnswer(r, title, response) == ShowReturned(get_ai_analysis(r, response), title)

\* if spacy_suggestions: st.subheader; for suggestion in spacy_suggestions:
\* st.warning(suggestion)
ShowSuggestions(r, l) ==
  IF l = <<>> THEN r
  ELSE [r EXCEPT !.todo = @ \o <<Effect("element", Element("subheader", "Keyword Suggestions"))>>
                            \o [i \in 1..Len(l) |-> Effect("element", Element("warning", l[i]))]]

\* the calls of get_ai_analysis, where a run waits in requests.post
Waiting == {"post_164", "post_193", "post_225"}

\* the part of a run that starts here: nothing to do yet
NewPart(spacy_suggestions_so_far) ==
  [todo |-> <<>>, wait |-> "", spacy_suggestions |-> spacy_suggestions_so_far]

\* st.stop()
Stop(r) == [r EXCEPT !.todo = Append(@, Effect("stop", ""))]

\* the script reaches its last line
End(r) == [r EXCEPT !.todo = Append(@, Effect("end", ""))]

\* an exception nothing catches ends the run
Abort(r, e) == [r EXCEPT !.todo = Append(@, Effect("exception", e))]

\* calculate_score gave sc for the list l: the metric is updated and the run
\* calls get_ai_analysis, where it waits
AfterScorer(r, wait, l, sc) ==
  IF sc.raised # "" THEN Abort(r, sc.raised)
  ELSE [WithMetric(r, ScoreMetric(sc.value)) EXCEPT !.spacy_suggestions = l, !.wait = wait]

\* get_spacy_suggestions gave sg
AfterMatcher(r, t, wait, sg) ==
  IF sg.raised # "" THEN Abort(r, sg.raised)
  ELSE AfterScorer(r, wait, sg.value, calculate_score(sg.value, t))

\* the analysis both tabs run on their text, up to the call of get_ai_analysis
Analyze(r, t, wait, fails) ==
  AfterMatcher(r, t, wait, get_spacy_suggestions(t, fails))

\* tab 2 below its uploader: runs its analysis whenever a file with text is
\* in the uploader
UnderUploader(r, fails) ==
  IF ~resume_file'.uploaded THEN End(r)
  ELSE IF resume_file'.text.none THEN End(Rendered(r, "error", "Error reading PDF file"))
  ELSE IF ~Truthy(resume_file'.text) THEN End(r)
  ELSE Analyze(r, resume_file'.text, "post_225", fails)

\* with tab2, from line 203
Tab2(r, fails) == UnderUploader(WithWidget(r, "resume_file"), fails)

\* col2 below its button, then tab 2
UnderRewrite(r, bs, fails) ==
  IF "linkedin_rewrite" \notin bs THEN Tab2(r, fails)
  ELSE IF Truthy(profile_text') THEN [r EXCEPT !.wait = "post_193"]
  ELSE Tab2(Rendered(r, "error", "Paste your 'About' text in the box to get rewrites."), fails)

\* with col2, from line 177
Col2(r, bs, fails) == UnderRewrite(WithWidget(r, "linkedin_rewrite"), bs, fails)

\* col1 below its button, then col2
UnderAnalyze(r, bs, fails) ==
  IF "linkedin_button" \notin bs THEN Col2(r, bs, fails)
  ELSE IF Truthy(profile_text') THEN Analyze(r, profile_text', "post_164", fails)
  ELSE Col2(Rendered(r, "error", "Please paste your profile text into the box above."), bs, fails)

\* with tab1, from line 140: the text area and the Analyze button
Tab1(r, bs, fails) ==
  UnderAnalyze(WithWidget(WithWidget(r, "linkedin_text"), "linkedin_button"), bs, fails)

\* the script from its first line to the first call of get_ai_analysis or to
\* its end: the checks of lines 19-34, the sidebar, the tabs
FromTop(bs, pat, loaded, fails) ==
  IF ~pat
    THEN Stop(Rendered(NewPart(<<>>), "error",
                       "Error: GITHUB_PAT not found. Please check your .env file."))
  ELSE IF ~loaded
    THEN Stop(Rendered(Rendered(NewPart(<<>>), "error",
                                "Error: Spacy model 'en_core_web_sm' not found."),
                       "error", "Please run: python -m spacy download en_core_web_sm"))
  ELSE Tab1(WithMetric(NewPart(<<>>), InitialMetric), bs, fails)

\* the script from the return of requests.post at wait to the next call of
\* get_ai_analysis or to its end
AfterPost(r, wait, bs, response, fails) ==
  IF wait = "post_164"
    THEN Col2(ShowSuggestions(ShowAnswer(r, "Your AI-Powered Analysis", response),
                              r.spacy_suggestions), bs, fails)
  ELSE IF wait = "post_193"
    THEN Tab2(ShowAnswer(r, "AI-Powered Rewrites", response), fails)
  ELSE End(ShowSuggestions(ShowAnswer(r, "Your Resume Analysis", response),
                           r.spacy_suggestions))

\* the run goes on with the part r
Continue(r, bs, rendered) ==
  script' = [at |-> "running", todo |-> r.todo, wait |-> r.wait, buttons |-> bs,
             spacy_suggestions |-> r.spacy_suggestions, rendered |-> rendered]

\* a run of the script starts, with the widget state of the primed variables
\* and the buttons bs that were clicked: it has rendered nothing yet.  A
\* variable that load_dotenv found and a pipeline that was loaded stay for
\* the process.
ScriptRun(bs) ==
  /\ metric' = NoMetric
  /\ page' = <<>>
  /\ uncaught' = ""
  /\ UNCHANGED widgets_shown
  /\ \E pat \in (IF github_pat THEN {TRUE} ELSE BOOLEAN),
        loaded \in (IF nlp_loaded THEN {TRUE} ELSE BOOLEAN),
        fails \in BOOLEAN :
       /\ github_pat' = pat
       /\ nlp_loaded' = (pat /\ loaded)
       /\ \E r \in {FromTop(bs, pat, loaded, fails)} : Continue(r, bs, {})

\* a run is in progress
InProgress == script.at \in {"running", "doomed"} \cup Waiting

\* an event of the session asks for a rerun with the buttons bs.  With no
\* run in progress the script runs at once.  A run in progress ends at its
\* next st.* call (an exception nothing catches is reported by one), so it
\* renders nothing more; the request is kept, with the buttons of the
\* requests before it, until then.
Request(bs) ==
  IF InProgress
  THEN /\ pending' = [requested |-> TRUE, buttons |-> pending.buttons \cup bs]
       /\ script' = NoScript("doomed")
       /\ UNCHANGED <<metric, page, uncaught, widgets_shown, github_pat, nlp_loaded>>
  ELSE /\ pending' = NoPending
       /\ ScriptRun(bs)

Init ==
  /\ text = Str(<<>>)
  /\ CoreIdle
  /\ PageIdle

\* the browser opens the page: the first run
OpenPage ==
  /\ script.at = "start"
  /\ UNCHANGED <<widget_vars, pending>>
  /\ ScriptRun({})
  /\ UNCHANGED core_vars

\* the user reruns the app
Rerun ==
  /\ script.at # "start"
  /\ UNCHANGED widget_vars
  /\ Request({})
  /\ UNCHANGED core_vars

\* the user changes the text area
EditProfileText ==
  /\ "linkedin_text" \in widgets_shown
  /\ \E t \in Edits(profile_text) : t # profile_text /\ profile_text' = t
  /\ UNCHANGED resume_file
  /\ Request({})
  /\ UNCHANGED core_vars

\* the user clicks "Analyze My Profile"
ClickAnalyze ==
  /\ "linkedin_button" \in widgets_shown
  /\ UNCHANGED widget_vars
  /\ Request({"linkedin_button"})
  /\ UNCHANGED core_vars

\* the user clicks "Rewrite My 'About' Section"
ClickRewrite ==
  /\ "linkedin_rewrite" \in widgets_shown
  /\ UNCHANGED widget_vars
  /\ Request({"linkedin_rewrite"})
  /\ UNCHANGED core_vars

\* the user uploads a PDF
UploadResume ==
  /\ "resume_file" \in widgets_shown
  /\ \E t \in ResumeTexts : resume_file' = [uploaded |-> TRUE, text |-> t]
  /\ resume_file' # resume_file
  /\ UNCHANGED profile_text
  /\ Request({})
  /\ UNCHANGED core_vars

\* the user removes the PDF
RemoveResume ==
  /\ "resume_file" \in widgets_shown
  /\ resume_file.uploaded
  /\ resume_file' = NoFile
  /\ UNCHANGED profile_text
  /\ Request({})
  /\ UNCHANGED core_vars

\* the run makes its next st.* call
Render ==
  /\ script.at = "running"
  /\ Head(script.todo).kind \in {"metric", "element", "widget"}
  /\ \E e \in {Head(script.todo)} :
       /\ metric' = (IF e.kind = "metric" THEN e.val ELSE metric)
       /\ page' = (IF e.kind = "element" THEN Append(page, e.val) ELSE page)
       /\ widgets_shown' = (IF e.kind = "widget" THEN widgets_shown \cup {e.val}
                            ELSE widgets_shown)
       /\ script' = [script EXCEPT
                       !.todo = Tail(@),
                       !.at = IF Len(script.todo) = 1 THEN script.wait ELSE "running",
                       !.rendered = IF e.kind = "widget" THEN @ \cup {e.val} ELSE @]
  /\ UNCHANGED <<widget_vars, pending, uncaught, github_pat, nlp_loaded>>
  /\ UNCHANGED core_vars

\* the run ends: at the last line, by st.stop(), or by an exception nothing
\* catches.  The widgets it did not render leave the page.
Finish ==
  /\ script.at = "running"
  /\ Head(script.todo).kind \in {"end", "stop", "exception"}
  /\ uncaught' = (IF Head(script.todo).kind = "exception" THEN Head(script.todo).val
                  ELSE uncaught)
  /\ widgets_shown' = script.rendered
  /\ script' = NoScript(IF Head(script.todo).kind = "stop" THEN "stopped" ELSE "idle")
  /\ UNCHANGED <<widget_vars, pending, metric, page, github_pat, nlp_loaded>>
  /\ UNCHANGED core_vars

\* requests.post returns or raises: the run goes on
PostReturns ==
  /\ script.at \in Waiting
  /\ UNCHANGED <<widget_vars, pending, metric, page, uncaught, widgets_shown,
                 github_pat, nlp_loaded>>
  /\ \E response \in Responses, fails \in BOOLEAN :
       \E r \in {AfterPost(NewPart(script.spacy_suggestions), script.at,
                           script.buttons, response, fails)} :
         Continue(r, script.buttons, script.rendered)
  /\ UNCHANGED core_vars

\* the run for which a rerun was requested reaches its next st.* call (when
\* it waits in requests.post: after that returned) and ends there; the
\* requested run starts
Abandon ==
  /\ script.at = "doomed"
  /\ UNCHANGED widget_vars
  /\ pending' = NoPending
  /\ ScriptRun(pending.buttons)
  /\ UNCHANGED core_vars

Next ==
  \/ OpenPage \/ Rerun \/ EditProfileText \/ ClickAnalyze \/ ClickRewrite
  \/ UploadResume \/ RemoveResume \/ Render \/ Finish \/ PostReturns \/ Abandon

Spec == Init /\ [][Next]_vars

(* ------------------------------- claims -------------------------------- *)

\* the scorer was called and returned
Scored == pc \in {"scored", "scored_list"} /\ score.raised = ""

\* the matcher was called and returned
Matched == pc = "matched" /\ suggestions.raised = ""

\* the phrase of each rule, in catalog order
RulePhrases ==
  << Join(<<w_i, w_think>>), Join(<<w_i, w_believe>>),
     Join(<<w_helped, w_with>>), Join(<<w_responsible, w_for>>) >>

\* the rule a suggestion is about
RuleOf(suggestion) ==
  CHOOSE c \in 1..Len(RulePhrases) : Lower(suggestion.found) = RulePhrases[c]

\* rule c matches somewhere in the text s
RuleOccurs(s, doc, c) ==
  \E start \in 0..Len(doc) : PatternMatchesAt(s, doc, patterns[c], start)

\* the keywords that occur in the lowercased text s
KeywordsIn(s) == {k \in keywords : Contains(Lower(s), k)}

\* C1: for every text and every suggestion list, the value calculate_score
\* returns is an integer from 0 to 100.
C1_ScoreInRange == Scored => score.value \in 0..100

C1_Witness ==
  /\ Scored
  /\ RawScore(suggestions.value, text.s) < 0
  /\ score.value = 0

\* C2: the keyword bonus is 10 for each distinct keyword of data, software,
\* python in the lowercased text (30 when all three appear), and a
\* 600-character text with "data" and "software" and no weak phrase scores 90.
C2_BonusPerKeyword ==
  Scored =>
    /\ score.value =
         Max(0, Min(100, RawScore(suggestions.value, text.s) - KeywordAdjust(text.s)
                         + 10 * Cardinality(KeywordsIn(text.s))))
    /\ ( /\ Len(text.s) = 600
         /\ KeywordsIn(text.s) = {w_data, w_software}
         /\ suggestions.value = <<>>
         => score.value = 90 )

\* C3: for a text with none of the keywords the score is
\* clamp(50 - 15*n + adj, 0, 100), n the number of suggestions, adj -20 below
\* 150 characters, +20 above 500 and 0 from 150 to 500 inclusive.
C3_ScoreWithoutKeywords ==
  Scored /\ KeywordsIn(text.s) = {} =>
    LET n == Len(suggestions.value)
        adj == IF Len(text.s) < 150 THEN -20
               ELSE IF Len(text.s) > 500 THEN 20
               ELSE 0
        raw == 50 - 15 * n + adj
    IN  score.value = (IF raw < 0 THEN 0 ELSE IF raw > 100 THEN 100 ELSE raw)

C3_Witness ==
  /\ Scored
  /\ KeywordsIn(text.s) = {}
  /\ Len(text.s) = 150
  /\ Len(suggestions.value) = 1
  /\ score.value = 35

\* C4: the matcher returns exactly one suggestion for each rule that matches
\* at least once and none for a rule that does not match, also when the
\* occurrences differ in letter case, so never more than four suggestions.
C4_OnePerRule ==
  Matched =>
    /\ \A c \in 1..Len(RulePhrases) :
         Cardinality({i \in 1..Len(suggestions.value) : RuleOf(suggestions.value[i]) = c})
           = (IF RuleOccurs(text.s, Tokenize(text.s), c) THEN 1 ELSE 0)
    /\ Len(suggestions.value) <= 4

\* C5: the list the matcher returns never holds the same suggestion string
\* twice; "I think I think I believe" yields exactly two suggestions.
C5_NoDuplicateSuggestion ==
  Matched =>
    /\ \A i, j \in 1..Len(suggestions.value) :
         i # j => suggestions.value[i] # suggestions.value[j]
    /\ (text = Str(ThinkThinkBelieve) => Len(suggestions.value) = 2)

C5_Witness ==
  /\ Matched
  /\ text = Str(ThinkThinkBelieve)
  /\ Len(suggestions.value) = 2

\* C6: the suggestions are in the catalog order of their rules, wherever the
\* phrases occur in the text.
C6_CatalogOrder ==
  Matched =>
    \A i, j \in 1..Len(suggestions.value) :
      i < j => RuleOf(suggestions.value[i]) <= RuleOf(suggestions.value[j])

\* C7: for the empty string and for None the matcher returns an empty list
\* and the scorer returns 30, without raising.
C7_EmptyOrNoneText ==
  (text \in {Str(<<>>), None} /\ ~tokenizer_failed) =>
    /\ (pc = "matched" => suggestions = Returned(<<>>))
    /\ (pc \in {"scored", "scored_list"} /\ suggestions.value = <<>>
          => score = Returned(30))

\* C8: when the tokenizer fails, the matcher returns an empty suggestion list
\* and raises nothing.
C8_TokenizerFailureRecovered ==
  pc = "matched" /\ tokenizer_failed => suggestions = Returned(<<>>)

\* C9: for "I think I helped with the project and I was responsible for
\* sales." the matcher returns four suggestions and the score is -30 before
\* the clamp and 0 after it.
C9_SalesFourRules ==
  text = Str(SalesText) /\ pc = "scored" =>
    /\ Len(suggestions.value) = 4
    /\ RawScore(suggestions.value, text.s) = -30
    /\ score = Returned(0)

\* C9, amended: for that text the matcher returns three suggestions, for
\* "I think", "helped with" and "responsible for" (the text has no
\* "I believe"), and the score is 50 - 3*15 - 20 = -15 before the clamp and
\* 0 after it.
C9_SalesThreeRules ==
  text = Str(SalesText) /\ pc = "scored" =>
    /\ Len(suggestions.value) = 3
    /\ {RuleOf(suggestions.value[i]) : i \in 1..3} = {1, 3, 4}
    /\ RawScore(suggestions.value, text.s) = 50 - 3 * 15 - 20
    /\ RawScore(suggestions.value, text.s) = -15
    /\ score = Returned(0)

C9_Witness ==
  /\ text = Str(SalesText)
  /\ pc = "scored"
  /\ Len(suggestions.value) = 3
  /\ score = Returned(0)

\* the texts the text area and the uploader can hold
AnalyzedTexts == TypedTexts \cup PastedTexts \cup ResumeTexts

\* calculate_score on every text of the page, with every suggestion list
ScoreAtMost80 ==
  \A t \in AnalyzedTexts : \A l \in SuggestionLists :
    ~t.none => calculate_score(l, t).value <= 80

\* C10: calculate_score returns at most 80 for every suggestion list and
\* text, so in every run of either analyzer tab the sidebar metric reads
\* "{100-score} pts to improve" and never "Perfect!".
C10_NeverPerfect ==
  /\ metric.delta # "Perfect!"
  /\ metric.value <= 80
  /\ (metric.delta = "pts to improve" => metric.pts = 100 - metric.value)
  /\ profile_text \in AnalyzedTexts
  /\ resume_file.text \in AnalyzedTexts
  /\ ScoreAtMost80

C10_Witness ==
  /\ metric.delta = "pts to improve"
  /\ metric.value = 80
  /\ metric.pts = 20

====
